---- MODULE Spec2Model ----
(***************************************************************************)
(* The device communication core of homebridge-wiz-helper.                 *)
(*                                                                         *)
(*   - HomebridgeWizLight (src/unnamed/part_002): the per-device handler   *)
(*     with the in-flight flag `pendingRequest`, the pending queue         *)
(*     `callbacks`, getPilot and request.                                  *)
(*   - HomebridgeWizHelper (src/src/platform.ts, src/unnamed/part_000,     *)
(*     src/unnamed/part_001): getWizDevice and discoverDevices.            *)
(*                                                                         *)
(* Node runs every handler to completion on one event loop, so one action  *)
(* is one handler: a HomeKit call, a send-completion callback, a 'message' *)
(* event, a timer.  An exception that leaves a handler is recorded in      *)
(* `uncaught` / `dUncaught`; what the host process does with it is outside *)
(* this repository, and the event loop is modelled as going on.            *)
(***************************************************************************)
EXTENDS Integers, Sequences, FiniteSets, TLC

\* ------------------------------------------------------------------ bounds
MaxCalls == 3     \* HomeKit get/set calls made on the one device
MaxMsgs == 2      \* datagrams that arrive on the device's sockets, in all
NCand == 2        \* candidates handed to discoverDevices
MaxDgrams == 2    \* datagrams that arrive on the sockets of the discovery queries, in all

\* ------------------------------------------------------------ wire values
Methods == {"getPilot", "setPilot"}

\* the `result` member of a reply is missing
NoResult == 0

\* What can arrive on a socket: bytes that are not JSON, or a JSON object
\* with a method and possibly a result.  A getPilot reply carries one of two
\* pilot states (1, 2) or no result (an error reply); a setPilot reply
\* carries the acknowledgement (1).
Garbage == [json |-> FALSE, method |-> "none", result |-> NoResult]

Replies ==
    {Garbage}
    \cup [json : {TRUE}, method : {"getPilot"}, result : {NoResult, 1, 2}]
    \cup [json : {TRUE}, method : {"setPilot"}, result : {1}]

\* ------------------------------------------------------------------ state
VARIABLES
    pendingRequest,   \* HomebridgeWizLight.pendingRequest
    callbacks,        \* HomebridgeWizLight.callbacks: callers waiting for a getPilot reply
    socks,            \* the sockets request() has created, in creation order
    calls,            \* history: the HomeKit calls made so far, "get" or "set"; caller c is calls[c]
    delivered,        \* history: invocations of callers' callbacks, in order
    uncaught,         \* history: exceptions that left a handler
    dMode,            \* which discoverDevices runs: "serial" (platform.ts, part_001) or "parallel" (part_000)
    dPhase,           \* "start" before discoverDevices runs, "scan" while it queries, "done" once lights is built
    dCur,             \* serial mode: the candidate whose query is awaited
    dq,               \* per candidate: its getWizDevice call (socket, timer, promise)
    lights,           \* discoverDevices' lights
    dUncaught,        \* history: exceptions that left a handler of getWizDevice
    accessories,      \* HomebridgeWizHelper.accessories: the UUIDs of the accessories restored from the cache
    registered,       \* history: the UUIDs passed to api.registerPlatformAccessories, in order
    variant,          \* whose temperature code runs: "part_002" or "platformAccessory"
    arg,              \* the value handed to the temperature code: a Kelvin value, a unit value, a reply's temp
    out,              \* what the first conversion of arg returned
    back,             \* what the opposite conversion of out returned
    Temperature,      \* HomebridgeWizLight.currentState.Temperature
    cbValue,          \* the value getTemperature passed to its caller's callback
    tempRaised,       \* history: the getPilot callback of getTemperature threw
    mapperCalls       \* history: the calls of tempToCalvin / calvinToTemp made by setTemperature / getTemperature

lightVars == <<pendingRequest, callbacks, socks, calls, delivered, uncaught>>

discVars == <<dMode, dPhase, dCur, dq, lights, dUncaught, accessories, registered>>

mapVars == <<variant, arg, out, back, Temperature, cbValue, tempRaised, mapperCalls>>

vars == <<pendingRequest, callbacks, socks, calls, delivered, uncaught,
          dMode, dPhase, dCur, dq, lights, dUncaught, accessories, registered,
          variant, arg, out, back, Temperature, cbValue, tempRaised, mapperCalls>>

\* No explicit callback was passed to request (the coalesced getPilot).
NoCallback == 0

\* private pendingRequest = false; private callbacks = [];
LightInit ==
    /\ pendingRequest = FALSE
    /\ callbacks = <<>>
    /\ socks = <<>>
    /\ calls = <<>>
    /\ delivered = <<>>
    /\ uncaught = {}

\* udp.createSocket('udp4') followed by client.send(...): the socket is open,
\* its datagram handed over, the send callback not yet run.  `by` is history:
\* the caller whose HomeKit call made request run.
NewSocket(method, cb, by) ==
    [method |-> method, cb |-> cb, by |-> by, st |-> "sending", open |-> TRUE,
     timers |-> 0, handled |-> 0]

\* request(method, params, callback?) up to the return of client.send, called
\* on behalf of caller `by`
Request(method, cb, by) ==
    /\ pendingRequest' = TRUE
    /\ socks' = Append(socks, NewSocket(method, cb, by))

\* getPilot(callback)
GetPilot(c) ==
    /\ callbacks' = Append(callbacks, c)
    /\ IF ~pendingRequest
         THEN Request("getPilot", NoCallback, c)
         ELSE UNCHANGED <<pendingRequest, socks>>

\* getOn / getBrightness / getTemperature: a HomeKit GET
GetState ==
    /\ Len(calls) < MaxCalls
    /\ calls' = Append(calls, "get")
    /\ GetPilot(Len(calls) + 1)
    /\ UNCHANGED <<delivered, uncaught>>
    /\ UNCHANGED discVars
    /\ UNCHANGED mapVars

\* Mutant of SetState: a SET made while an exchange is in flight is dropped
\* instead of being sent.
SetStateCoalesced ==
    /\ Len(calls) < MaxCalls
    /\ calls' = Append(calls, "set")
    /\ IF ~pendingRequest
         THEN Request("setPilot", Len(calls) + 1, Len(calls) + 1)
         ELSE UNCHANGED <<pendingRequest, socks>>
    /\ UNCHANGED <<callbacks, delivered, uncaught>>
    /\ UNCHANGED discVars
    /\ UNCHANGED mapVars

\* setOn / setBrightness / setTemperature: a HomeKit SET
SetState ==
    /\ Len(calls) < MaxCalls
    /\ calls' = Append(calls, "set")
    /\ Request("setPilot", Len(calls) + 1, Len(calls) + 1)
    /\ UNCHANGED <<callbacks, delivered, uncaught>>
    /\ UNCHANGED discVars
    /\ UNCHANGED mapVars

\* The callback a getOn/getBrightness/getTemperature caller queued reads
\* response.result.<field> before it calls HomeKit's callback: it throws a
\* TypeError when the reply has no result.
GetCallbackThrows(msg) == msg.result = NoResult

\* One invocation of caller c's callback with the parsed reply of socket s;
\* ok tells whether HomeKit's callback was reached.
Delivery(c, msg, s, ok) == [to |-> c, val |-> msg, sock |-> s, ok |-> ok]

\* this.callbacks.forEach(callback => callback(JSON.parse(...))) for the
\* callers in q, in order, none of which throws
DeliverAll(q, msg, s) == [i \in 1..Len(q) |-> Delivery(q[i], msg, s, TRUE)]

\* setTimeout(() => client.close(), 0): one more deferred close is armed
ArmClose(s) == [socks EXCEPT ![s].timers = @ + 1, ![s].handled = @ + 1]

\* Mutant of OnMessage: the reply on a socket with a callback of its own is
\* passed to the queued callbacks as well.
OnMessageDrainsAlways(s, msg) ==
    /\ pendingRequest' = FALSE
    /\ IF ~msg.json
         THEN /\ uncaught' = uncaught \cup {[sock |-> s, kind |-> "SyntaxError"]}
              /\ socks' = [socks EXCEPT ![s].handled = @ + 1]
              /\ UNCHANGED <<callbacks, delivered>>
         ELSE IF callbacks # <<>> /\ GetCallbackThrows(msg)
         THEN /\ delivered' = Append(delivered, Delivery(Head(callbacks), msg, s, FALSE))
              /\ uncaught' = uncaught \cup {[sock |-> s, kind |-> "TypeError"]}
              /\ socks' = [socks EXCEPT ![s].handled = @ + 1]
              /\ UNCHANGED callbacks
         ELSE /\ delivered' = (IF socks[s].cb # NoCallback
                                 THEN Append(delivered, Delivery(socks[s].cb, msg, s, TRUE))
                                 ELSE delivered) \o DeliverAll(callbacks, msg, s)
              /\ callbacks' = <<>>
              /\ socks' = ArmClose(s)
              /\ UNCHANGED uncaught

\* client.on('message', ...) of request
OnMessage(s, msg) ==
    /\ pendingRequest' = FALSE
    /\ IF ~msg.json
         THEN \* JSON.parse throws in the argument of log.debug: the handler is left
              /\ uncaught' = uncaught \cup {[sock |-> s, kind |-> "SyntaxError"]}
              /\ socks' = [socks EXCEPT ![s].handled = @ + 1]
              /\ UNCHANGED <<callbacks, delivered>>
         ELSE IF socks[s].cb # NoCallback
         THEN \* callback(JSON.parse(message.toString()))
              /\ delivered' = Append(delivered, Delivery(socks[s].cb, msg, s, TRUE))
              /\ socks' = ArmClose(s)
              /\ UNCHANGED <<callbacks, uncaught>>
         ELSE IF callbacks # <<>> /\ GetCallbackThrows(msg)
         THEN \* the first queued callback throws: forEach is left, the queue kept
              /\ delivered' = Append(delivered, Delivery(Head(callbacks), msg, s, FALSE))
              /\ uncaught' = uncaught \cup {[sock |-> s, kind |-> "TypeError"]}
              /\ socks' = [socks EXCEPT ![s].handled = @ + 1]
              /\ UNCHANGED callbacks
         ELSE \* every queued callback runs, then this.callbacks = []
              /\ delivered' = delivered \o DeliverAll(callbacks, msg, s)
              /\ callbacks' = <<>>
              /\ socks' = ArmClose(s)
              /\ UNCHANGED uncaught

\* the callback of client.send
OnSend(s, error) ==
    /\ pendingRequest' = FALSE
    /\ IF error
         THEN \* client.close(); throw error;
              /\ socks' = [socks EXCEPT ![s].st = "failed", ![s].open = FALSE]
              /\ uncaught' = uncaught \cup {[sock |-> s, kind |-> "SendError"]}
         ELSE /\ socks' = [socks EXCEPT ![s].st = "sent"]
              /\ UNCHANGED uncaught
    /\ UNCHANGED <<callbacks, delivered>>

\* the timer armed by setTimeout(() => client.close(), 0): close() throws
\* ERR_SOCKET_DGRAM_NOT_RUNNING on a socket that is already closed
OnDeferredClose(s) ==
    /\ socks' = [socks EXCEPT ![s].timers = @ - 1, ![s].open = FALSE]
    /\ uncaught' = IF socks[s].open THEN uncaught
                   ELSE uncaught \cup {[sock |-> s, kind |-> "NotRunning"]}
    /\ UNCHANGED <<pendingRequest, callbacks, delivered>>

\* the datagrams handled so far on the first n sockets
RECURSIVE Handled(_)
Handled(n) == IF n = 0 THEN 0 ELSE socks[n].handled + Handled(n - 1)

\* The send of socket s completes, with or without an error.
SendComplete ==
    \E s \in DOMAIN socks, error \in BOOLEAN :
        /\ socks[s].st = "sending"
        /\ OnSend(s, error)
        /\ UNCHANGED calls
        /\ UNCHANGED discVars
        /\ UNCHANGED mapVars

\* A datagram arrives on an open socket whose request went out.
Message ==
    \E s \in DOMAIN socks, msg \in Replies :
        /\ socks[s].open
        /\ socks[s].st = "sent"
        /\ Handled(Len(socks)) < MaxMsgs
        /\ OnMessage(s, msg)
        /\ UNCHANGED calls
        /\ UNCHANGED discVars
        /\ UNCHANGED mapVars

\* A deferred close of socket s runs.
DeferredClose ==
    \E s \in DOMAIN socks :
        /\ socks[s].timers > 0
        /\ OnDeferredClose(s)
        /\ UNCHANGED calls
        /\ UNCHANGED discVars
        /\ UNCHANGED mapVars

\* --------------------------------------------------------------- discovery
\* a field a reply's result does not have
Absent == -1

\* The results a getPilot reply may carry to a discovery query: a dimmed
\* white bulb, a bulb reporting no temp, a bulb reporting neither field.
DResults ==
    { [mac |-> 1, dimming |-> 50, temp |-> 2700],
      [mac |-> 2, dimming |-> 80, temp |-> Absent],
      [mac |-> 1, dimming |-> Absent, temp |-> Absent] }

\* the `result` member of a reply is missing
DNoResult == [missing |-> TRUE]

\* What can arrive on the socket of a discovery query: bytes that are not
\* JSON, a getPilot reply without result (an error reply), a getPilot reply
\* with a result, a reply with another method.
DGarbage == [json |-> FALSE, method |-> "none", result |-> DNoResult]

DReplies ==
    {DGarbage}
    \cup [json : {TRUE}, method : {"getPilot"}, result : DResults \cup {DNoResult}]
    \cup [json : {TRUE}, method : {"setPilot"}, result : {DNoResult}]

\* a promise nobody has resolved yet, and the value null (records, as the
\* device descriptors are)
Pending == [type |-> "pending"]
Null == [type |-> "null"]

\* JavaScript truthiness of an optional number
Truthy(x) == x # Absent /\ x # 0

\* makeWizDevice(ip, info) of platform.ts and part_001: the type is inferred
\* from the optional fields, which are copied for a WHITE_LIGHT only
MakeWizDeviceClassify(ip, info) ==
    LET type == IF ~Truthy(info.result.dimming) THEN "SWITCH"
                ELSE IF Truthy(info.result.temp) THEN "WHITE_LIGHT"
                ELSE "RGB_LIGHT"
    IN  [ip |-> ip, type |-> type, mac |-> info.result.mac,
         dimming |-> IF type = "WHITE_LIGHT" THEN info.result.dimming ELSE Absent,
         temp |-> IF type = "WHITE_LIGHT" THEN info.result.temp ELSE Absent]

\* makeWizDevice(ip, info) of part_000: every bulb is a WHITE_LIGHT,
\* dimming: info.result.dimming ?? 0, temp: info.result.temp ?? 2700
MakeWizDeviceWhite(ip, info) ==
    [ip |-> ip, type |-> "WHITE_LIGHT", mac |-> info.result.mac,
     dimming |-> IF info.result.dimming = Absent THEN 0 ELSE info.result.dimming,
     temp |-> IF info.result.temp = Absent THEN 2700 ELSE info.result.temp]

\* this.makeWizDevice(ip, deviceInfo) of the variant that runs
MakeWizDevice(mode, ip, info) ==
    IF mode = "serial" THEN MakeWizDeviceClassify(ip, info)
    ELSE MakeWizDeviceWhite(ip, info)

\* Mutant of Resolve: a result slot that every call overwrites.
ResolveLast(p, v) == v

\* resolve(v) of a promise whose state is p: only the first call settles it
Resolve(p, v) == IF p = Pending THEN v ELSE p

\* What the 'message' handler of getWizDevice passes to resolve: JSON.parse,
\* the method test and makeWizDevice all run inside try; makeWizDevice throws
\* a TypeError when the reply has no result, and catch resolves null.
Parsed(mode, ip, msg) ==
    IF ~msg.json THEN Null
    ELSE IF msg.method # "getPilot" THEN Null
    ELSE IF msg.result = DNoResult THEN Null
    ELSE MakeWizDevice(mode, ip, msg)

\* History: the first of the racing events of a query (a datagram, the
\* timeout, a send error), NoEvent while none has happened.
NoEvent == [ev |-> "none"]

First(f, e) == IF f = NoEvent THEN e ELSE f

\* a candidate whose getWizDevice has not been called (rank is history: the
\* position of the query among the settled ones, 0 while it is pending)
Idle ==
    [st |-> "idle", open |-> FALSE, timers |-> 0, handled |-> 0, fired |-> FALSE,
     promise |-> Pending, first |-> NoEvent, rank |-> 0]

\* getWizDevice(ip) up to the return of the promise: socket created, datagram
\* handed over, timeout armed
Started == [Idle EXCEPT !.st = "sending", !.open = TRUE]

DiscInit ==
    /\ dMode \in {"serial", "parallel"}
    /\ dPhase = "start"
    /\ dCur = 0
    /\ dq = [i \in 1..NCand |-> Idle]
    /\ lights = <<>>
    /\ dUncaught = {}
    /\ registered = <<>>

\* Mutant of Collect: a candidate that resolved null discards the devices
\* found before it.
RECURSIVE CollectAbort(_, _)
CollectAbort(q, n) ==
    IF n = 0 THEN <<>>
    ELSE IF q[n].promise # Null THEN Append(CollectAbort(q, n - 1), q[n].promise)
    ELSE <<>>

\* wizDevices.forEach((wizDevice, index) => { if (wizDevice) lights.push(wizDevice) })
RECURSIVE Collect(_, _)
Collect(q, n) ==
    IF n = 0 THEN <<>>
    ELSE IF q[n].promise # Null THEN Append(Collect(q, n - 1), q[n].promise)
    ELSE Collect(q, n - 1)

\* the devices of the settled queries q in the order in which they settled
RECURSIVE CollectByRank(_, _)
CollectByRank(q, r) ==
    IF r = 0 THEN <<>>
    ELSE LET i == CHOOSE j \in 1..NCand : q[j].rank = r
         IN  IF q[i].promise # Null THEN Append(CollectByRank(q, r - 1), q[i].promise)
             ELSE CollectByRank(q, r - 1)

\* Mutant of ContinueParallel: lights is built in the order in which the
\* queries settled.
ContinueParallelArrival(q) ==
    IF \A i \in 1..NCand : q[i].promise # Pending
      THEN dq' = q /\ lights' = CollectByRank(q, NCand) /\ dPhase' = "done" /\ UNCHANGED dCur
      ELSE dq' = q /\ UNCHANGED <<dPhase, dCur, lights>>

\* part_000, the code after await Promise.all(promises), which runs as a
\* microtask right after the handler that left the queries as q settled the
\* last promise: lights is built from the results, in candidate order.
ContinueParallel(q) ==
    IF \A i \in 1..NCand : q[i].promise # Pending
      THEN dq' = q /\ lights' = Collect(q, NCand) /\ dPhase' = "done" /\ UNCHANGED dCur
      ELSE dq' = q /\ UNCHANGED <<dPhase, dCur, lights>>

\* platform.ts and part_001, the code after await this.getWizDevice(device.ip),
\* which runs as a microtask right after the handler that left the queries as
\* q settled the awaited promise: the device is pushed and getWizDevice is
\* called for the next candidate.
ContinueSerial(q) ==
    IF q[dCur].promise = Pending
      THEN dq' = q /\ UNCHANGED <<dPhase, dCur, lights>>
      ELSE /\ lights' = IF q[dCur].promise # Null
                          THEN Append(lights, q[dCur].promise) ELSE lights
           /\ IF dCur < NCand
                THEN /\ dCur' = dCur + 1
                     /\ dq' = [q EXCEPT ![dCur + 1] = Started]
                     /\ UNCHANGED dPhase
                ELSE /\ dPhase' = "done"
                     /\ dq' = q
                     /\ UNCHANGED dCur

\* History: the queries q that a handler leaves, the one it settled marked
\* with its position among the settled queries.
Ranked(q) ==
    [i \in 1..NCand |->
        IF dq[i].promise = Pending /\ q[i].promise # Pending
          THEN [q[i] EXCEPT !.rank = 1 + Cardinality({j \in 1..NCand : dq[j].promise # Pending})]
          ELSE q[i]]

\* this.api.hap.uuid.generate(mac): one UUID per MAC
Uuid(mac) == [uuid |-> mac]

\* the UUIDs of the devices that may sit in the cache
Uuids == {Uuid(r.mac) : r \in DResults}

\* for (const device of lights) { ... }: what the loop over the first n
\* devices passes to registerPlatformAccessories; a device whose UUID is
\* found in this.accessories is restored, not registered, and
\* this.accessories is not changed by the loop
RECURSIVE RegisterAll(_, _)
RegisterAll(ls, n) ==
    IF n = 0 THEN <<>>
    ELSE LET done == RegisterAll(ls, n - 1)
             uuid == Uuid(ls[n].mac)
         IN  IF uuid \in accessories THEN done ELSE Append(done, uuid)

\* The rest of the event-loop turn of a handler of getWizDevice that left the
\* queries as q: the continuation of discoverDevices, if it is still scanning,
\* which goes on to the registration loop once lights is complete.
Continue(q) ==
    /\ IF dPhase # "scan" THEN dq' = Ranked(q) /\ UNCHANGED <<dPhase, dCur, lights>>
       ELSE IF dMode = "parallel" THEN ContinueParallel(Ranked(q))
       ELSE ContinueSerial(Ranked(q))
    /\ registered' = IF dPhase = "scan" /\ dPhase' = "done"
                       THEN RegisterAll(lights', Len(lights'))
                       ELSE registered
    /\ UNCHANGED accessories

\* client.on('message', ...) of getWizDevice
DOnMessage(i, msg) ==
    /\ Continue([dq EXCEPT ![i].promise = Resolve(@, Parsed(dMode, i, msg)),
                           ![i].first = First(@, [ev |-> "message", msg |-> msg]),
                           ![i].handled = @ + 1,
                           ![i].timers = @ + 1])
    /\ UNCHANGED <<dMode, dUncaught>>

\* Mutant of DOnSend: the send callback of request (client.close(); throw
\* error;) in the place of getWizDevice's.
DOnSendThrows(i, error) ==
    /\ IF error
         THEN /\ Continue([dq EXCEPT ![i].st = "failed", ![i].open = FALSE,
                                     ![i].first = First(@, [ev |-> "senderror"])])
              /\ dUncaught' = dUncaught \cup {[q |-> i, kind |-> "SendError"]}
         ELSE /\ Continue([dq EXCEPT ![i].st = "sent"])
              /\ UNCHANGED dUncaught
    /\ UNCHANGED dMode

\* the callback of client.send of getWizDevice
DOnSend(i, error) ==
    /\ IF error
         THEN \* client.close(); resolve(null);
              IF dq[i].open
                THEN /\ Continue([dq EXCEPT ![i].st = "failed", ![i].open = FALSE,
                                            ![i].promise = Resolve(@, Null),
                                            ![i].first = First(@, [ev |-> "senderror"])])
                     /\ UNCHANGED dUncaught
                ELSE /\ Continue([dq EXCEPT ![i].st = "failed",
                                            ![i].first = First(@, [ev |-> "senderror"])])
                     /\ dUncaught' = dUncaught \cup {[q |-> i, kind |-> "NotRunning"]}
         ELSE /\ Continue([dq EXCEPT ![i].st = "sent"])
              /\ UNCHANGED dUncaught
    /\ UNCHANGED dMode

\* Mutant of DOnTimeout: the timer sends the request once more instead of
\* resolving null.
DOnTimeoutRetry(i) ==
    /\ Continue([dq EXCEPT ![i].fired = TRUE, ![i].st = "sending", ![i].open = TRUE])
    /\ UNCHANGED <<dMode, dUncaught>>

\* Mutant of DOnTimeout: the timer resolves null and leaves the socket open.
DOnTimeoutNoClose(i) ==
    /\ Continue([dq EXCEPT ![i].fired = TRUE,
                           ![i].promise = Resolve(@, Null),
                           ![i].first = First(@, [ev |-> "timeout"])])
    /\ UNCHANGED <<dMode, dUncaught>>

\* the timeout of getWizDevice: try { client.close() } catch (e) {} resolve(null)
DOnTimeout(i) ==
    /\ Continue([dq EXCEPT ![i].fired = TRUE, ![i].open = FALSE,
                           ![i].promise = Resolve(@, Null),
                           ![i].first = First(@, [ev |-> "timeout"])])
    /\ UNCHANGED <<dMode, dUncaught>>

\* setTimeout(() => client.close(), 0) of the 'message' handler
DOnDeferredClose(i) ==
    /\ Continue([dq EXCEPT ![i].timers = @ - 1, ![i].open = FALSE])
    /\ dUncaught' = IF dq[i].open THEN dUncaught
                    ELSE dUncaught \cup {[q |-> i, kind |-> "NotRunning"]}
    /\ UNCHANGED dMode

\* discoverDevices up to its first await: part_000 calls getWizDevice for
\* every candidate, platform.ts and part_001 for the first one.
DiscoverDevices ==
    /\ dPhase = "start"
    /\ dPhase' = "scan"
    /\ IF dMode = "parallel"
         THEN dq' = [i \in 1..NCand |-> Started] /\ UNCHANGED dCur
         ELSE dq' = [dq EXCEPT ![1] = Started] /\ dCur' = 1
    /\ UNCHANGED <<dMode, lights, dUncaught, accessories, registered>>
    /\ UNCHANGED lightVars
    /\ UNCHANGED mapVars

\* The send of candidate i's query completes, with or without an error.
DSendComplete ==
    \E i \in 1..NCand, error \in BOOLEAN :
        /\ dq[i].st = "sending"
        /\ DOnSend(i, error)
        /\ UNCHANGED lightVars
        /\ UNCHANGED mapVars

\* the datagrams handled so far by the queries of the first n candidates
RECURSIVE DHandled(_)
DHandled(n) == IF n = 0 THEN 0 ELSE dq[n].handled + DHandled(n - 1)

\* A datagram arrives on the open socket of a query whose request went out.
DMessage ==
    \E i \in 1..NCand, msg \in DReplies :
        /\ dq[i].open
        /\ dq[i].st = "sent"
        /\ DHandled(NCand) < MaxDgrams
        /\ DOnMessage(i, msg)
        /\ UNCHANGED lightVars
        /\ UNCHANGED mapVars

\* The timeout of candidate i's query expires.  The send callback of a UDP
\* datagram runs within the loop iteration that issued it, long before a
\* timer of 500 ms or more.
DTimeout ==
    \E i \in 1..NCand :
        /\ dq[i].st \in {"sent", "failed"}
        /\ ~dq[i].fired
        /\ DOnTimeout(i)
        /\ UNCHANGED lightVars
        /\ UNCHANGED mapVars

\* A deferred close of candidate i's socket runs.
DDeferredClose ==
    \E i \in 1..NCand :
        /\ dq[i].timers > 0
        /\ DOnDeferredClose(i)
        /\ UNCHANGED lightVars
        /\ UNCHANGED mapVars

DiscNext == DiscoverDevices \/ DSendComplete \/ DMessage \/ DTimeout \/ DDeferredClose

\* ------------------------------------------------------ temperature mapper
\* Calvin = 2700, 6500;  Temp = 140, 500
CalvinMin == 2700
CalvinMax == 6500
TempMin == 140
TempMax == 500

\* `temp = 500`, the value getTemperature falls back to
DefaultTemp == 500

\* a value that has not been computed yet
Unset == -2

\* the number NaN
NaN == -3

\* a temp field that holds text parseInt finds no number in
Unparseable == -4

Variants == {"part_002", "platformAccessory"}

\* Mutant of Round: Math.floor in the place of Math.round.
RoundDown(num, den) == num \div den

\* Math.round(num / den) for den > 0: the nearest integer, halves upwards
Round(num, den) == (2 * num + den) \div (2 * den)

\* Mutant of TempToCalvin: current = temp, the offset 140 not subtracted.
TempToCalvinUnshifted(temp) ==
    LET total == TempMax - TempMin
        current == temp
        pnum == total - current
    IN  Round(CalvinMin * total + (CalvinMax - CalvinMin) * pnum, total)

\* tempToCalvin(temp), the same in both variants; p = 1 - (current / total)
\* is kept as the fraction (total - current) / total
TempToCalvin(temp) ==
    LET total == TempMax - TempMin
        current == temp - TempMin
        pnum == total - current
    IN  Round(CalvinMin * total + (CalvinMax - CalvinMin) * pnum, total)

\* Mutant of CalvinToTemp: p = current / total in every variant.
CalvinToTempDirect(v, calvin) ==
    LET total == CalvinMax - CalvinMin
        current == calvin - CalvinMin
    IN  IF calvin = NaN THEN NaN
        ELSE Round(TempMin * total + (TempMax - TempMin) * current, total)

\* calvinToTemp(calvin) of variant v: part_002 has p = 1 - (current / total),
\* platformAccessory.ts has p = current / total; arithmetic on NaN is NaN
CalvinToTemp(v, calvin) ==
    LET total == CalvinMax - CalvinMin
        current == calvin - CalvinMin
        pnum == IF v = "part_002" THEN total - current ELSE current
    IN  IF calvin = NaN THEN NaN
        ELSE Round(TempMin * total + (TempMax - TempMin) * pnum, total)

\* parseInt(x) of a reply's temp: NaN for undefined and for text without a
\* leading number, the number itself for an integer
ParseInt(x) == IF x \in {Absent, Unparseable} THEN NaN ELSE x

\* What the temperature code can be handed: a Kelvin value or a unit value
\* to convert, the temp of the reply that getTemperature's callback gets
\* (NoResult: the reply has no result at all), or the value HomeKit writes
\* to the ColorTemperature characteristic, whose range is 140..500.
Args ==
    [kind : {"calvin"}, val : CalvinMin..CalvinMax]
    \cup [kind : {"temp"}, val : TempMin..TempMax]
    \cup [kind : {"set"}, val : TempMin..TempMax]
    \cup [kind : {"reply"}, val : {NoResult, Absent, Unparseable} \cup CalvinMin..CalvinMax]

NoArg == [kind |-> "none", val |-> Unset]

\* no temperature code runs; Temperature: 140 is the field initialiser
MapIdle ==
    /\ variant = "part_002"
    /\ arg = NoArg
    /\ out = Unset
    /\ back = Unset
    /\ Temperature = TempMin
    /\ cbValue = Unset
    /\ tempRaised = FALSE
    /\ mapperCalls = {}

MapInit ==
    /\ variant \in Variants
    /\ arg \in Args
    /\ out = Unset
    /\ back = Unset
    /\ Temperature = TempMin
    /\ cbValue = Unset
    /\ tempRaised = FALSE
    /\ mapperCalls = {}

\* calvinToTemp is called: on the Kelvin argument, or on the Kelvin value
\* that tempToCalvin returned for the unit argument
CalvinToTempCall ==
    /\ \/ arg.kind = "calvin" /\ out = Unset
          /\ out' = CalvinToTemp(variant, arg.val) /\ UNCHANGED back
       \/ arg.kind = "temp" /\ out # Unset /\ back = Unset
          /\ back' = CalvinToTemp(variant, out) /\ UNCHANGED out
    /\ UNCHANGED <<variant, arg, Temperature, cbValue, tempRaised, mapperCalls>>
    /\ UNCHANGED lightVars
    /\ UNCHANGED discVars

\* tempToCalvin is called: on the unit argument, or on the unit value that
\* calvinToTemp returned for the Kelvin argument
TempToCalvinCall ==
    /\ \/ arg.kind = "temp" /\ out = Unset
          /\ out' = TempToCalvin(arg.val) /\ UNCHANGED back
       \/ arg.kind = "calvin" /\ out # Unset /\ back = Unset
          /\ back' = TempToCalvin(out) /\ UNCHANGED out
    /\ UNCHANGED <<variant, arg, Temperature, cbValue, tempRaised, mapperCalls>>
    /\ UNCHANGED lightVars
    /\ UNCHANGED discVars

\* The callback that getTemperature hands to getPilot / request runs on a
\* reply: response.result.temp throws a TypeError when the reply has no
\* result; part_002 replaces a NaN by 500, platformAccessory.ts does not.
GetTemperatureReply ==
    /\ arg.kind = "reply"
    /\ cbValue = Unset
    /\ ~tempRaised
    /\ IF arg.val = NoResult
         THEN tempRaised' = TRUE /\ UNCHANGED <<Temperature, cbValue, mapperCalls>>
         ELSE LET calvin == ParseInt(arg.val)
                  temp == CalvinToTemp(variant, calvin)
                  stored == IF variant = "part_002" /\ temp = NaN THEN DefaultTemp ELSE temp
              IN  /\ mapperCalls' = mapperCalls \cup {[fn |-> "calvinToTemp", arg |-> calvin]}
                  /\ Temperature' = stored
                  /\ cbValue' = stored
                  /\ UNCHANGED tempRaised
    /\ UNCHANGED <<variant, arg, out, back>>
    /\ UNCHANGED lightVars
    /\ UNCHANGED discVars

\* setTemperature(value, callback): the value is stored, converted by
\* tempToCalvin and sent by request('setPilot', {temp: ...}, ...)
SetTemperature ==
    /\ arg.kind = "set"
    /\ calls = <<>>
    /\ Temperature' = arg.val
    /\ mapperCalls' = mapperCalls \cup {[fn |-> "tempToCalvin", arg |-> arg.val]}
    /\ out' = TempToCalvin(arg.val)
    /\ calls' = <<"set">>
    /\ Request("setPilot", 1, 1)
    /\ UNCHANGED <<callbacks, delivered, uncaught>>
    /\ UNCHANGED <<variant, arg, back, cbValue, tempRaised>>
    /\ UNCHANGED discVars

MapNext == CalvinToTempCall \/ TempToCalvinCall \/ GetTemperatureReply \/ SetTemperature

\* ---------------------------------------------------------- specifications
\* One device's handler at work; discovery is not running (its variant is
\* immaterial and fixed).
Init == LightInit /\ DiscInit /\ dMode = "serial" /\ accessories = {} /\ MapIdle

Next == GetState \/ SetState \/ SendComplete \/ Message \/ DeferredClose

Spec == Init /\ [][Next]_vars

\* The event loop runs the send callbacks and the timers that are due; no
\* device is obliged to reply.
LiveSpec == Spec /\ WF_vars(SendComplete) /\ WF_vars(DeferredClose)

\* One run of discoverDevices, in either variant; no HomeKit call is made.
DiscInitAll == LightInit /\ DiscInit /\ accessories = {} /\ MapIdle

DiscSpec == DiscInitAll /\ [][DiscNext]_vars

\* The event loop runs discoverDevices, the send callbacks and the timers
\* that are due; no candidate is obliged to reply.
DiscLive ==
    /\ DiscSpec
    /\ WF_vars(DiscoverDevices)
    /\ WF_vars(DSendComplete)
    /\ WF_vars(DTimeout)
    /\ WF_vars(DDeferredClose)

\* The temperature code of part_002 applied to one argument; no HomeKit
\* call is made and discovery is not running.
MapInit002 ==
    /\ LightInit
    /\ DiscInit /\ dMode = "serial" /\ accessories = {}
    /\ MapInit /\ variant = "part_002"

MapSpec == MapInit002 /\ [][MapNext]_vars

\* The temperature code of either variant applied to one argument.
MapInitAll == LightInit /\ DiscInit /\ dMode = "serial" /\ accessories = {} /\ MapInit

MapSpecAll == MapInitAll /\ [][MapNext]_vars

\* One run of discoverDevices, in either variant, after Homebridge restored
\* any set of accessories from its cache (configureAccessory).
RegInit == LightInit /\ DiscInit /\ accessories \in SUBSET Uuids /\ MapIdle

RegSpec == RegInit /\ [][DiscNext]_vars

\* ------------------------------------------------------------------ claims
\* The getPilot exchanges that are outstanding: datagram handed to the
\* socket, no reply processed yet, send not failed.
OutstandingGets ==
    {s \in DOMAIN socks : /\ socks[s].method = "getPilot"
                          /\ socks[s].st \in {"sending", "sent"}
                          /\ socks[s].handled = 0}

\* the last call made is a getState
GetStateStep == Len(calls') = Len(calls) + 1 /\ calls'[Len(calls')] = "get"

\* the deliveries made to caller c
DeliveriesTo(c) == {i \in DOMAIN delivered : delivered[i].to = c}

\* C1: at most one getPilot exchange of the device is outstanding at any
\* time.
C1_AtMostOneOutstandingGetPilot == Cardinality(OutstandingGets) <= 1

\* C2: a getState call issued while a getPilot exchange is outstanding sends
\* no further datagram, and no getState caller is delivered to twice, the
\* callers served by one reply all receiving that reply.
C2_CoalescedIntoOneExchange ==
    [][/\ (OutstandingGets # {} /\ GetStateStep) => Len(socks') = Len(socks)
       /\ \A c \in DOMAIN calls' :
            calls'[c] = "get" =>
                Cardinality({i \in DOMAIN delivered' : delivered'[i].to = c}) <= 1
       /\ \A i, j \in (DOMAIN delivered') \ (DOMAIN delivered) :
            delivered'[i].val = delivered'[j].val]_vars

\* C3: when a reply is processed on the socket of a coalesced getPilot, the
\* in-flight flag is cleared, every queued callback is delivered the reply in
\* the order of the queue, and the queue is empty afterwards.
C3_DrainInFifoOrder ==
    [][\A s \in DOMAIN socks :
         (socks[s].cb = NoCallback /\ socks'[s].handled = socks[s].handled + 1) =>
            /\ ~pendingRequest'
            /\ callbacks' = <<>>
            /\ Len(delivered') = Len(delivered) + Len(callbacks)
            /\ \A i \in 1..Len(callbacks) :
                 /\ delivered'[Len(delivered) + i].to = callbacks[i]
                 /\ delivered'[Len(delivered) + i].ok
                 /\ delivered'[Len(delivered) + i].sock = s]_vars

\* the datagram of the exchange that caller c's call opened went out
SentFor(c) == \E s \in DOMAIN socks : socks[s].by = c /\ socks[s].st = "sent"

\* C4: every getState or setState call whose datagram went out is eventually
\* resolved, the caller's callback being invoked, even when the device never
\* sends a datagram: a call stays unresolved only while a reply may still be
\* on its way, never for ever with no datagram arriving.
C4_EveryCallResolves ==
    \A c \in 1..MaxCalls :
        SentFor(c) ~> (DeliveriesTo(c) # {} \/ Handled(Len(socks)) > 0)

\* C6: a reply of non-JSON bytes on the socket of request raises no
\* exception (it resolves the call to absence).
C6_MalformedReplyRaisesNothing ==
    \A s \in DOMAIN socks : [sock |-> s, kind |-> "SyntaxError"] \notin uncaught

\* C7: a reply whose method differs from the method of the request that
\* opened the socket is never delivered to a caller.
C7_MismatchedMethodNotDelivered ==
    \A i \in DOMAIN delivered : delivered[i].val.method = socks[delivered[i].sock].method

\* C9: when the send of a getState or setState call fails, the callback of
\* the caller that issued the call is invoked (with the error).
C9_SendErrorReachesCaller ==
    \A s \in DOMAIN socks :
        socks[s].st = "failed" =>
            \E i \in DOMAIN delivered : delivered[i].to = socks[s].by /\ delivered[i].sock = s

\* What the first racing event of candidate i's query resolves the promise
\* to according to the claim as written: a descriptor exactly for a reply
\* that parses as JSON and whose method is 'getPilot'.
IsDescriptor(p) == p # Pending /\ p # Null

FirstIsGetPilotReply(i) ==
    /\ dq[i].first.ev = "message"
    /\ dq[i].first.msg.json
    /\ dq[i].first.msg.method = "getPilot"

\* C5 as written: a settled discovery query holds a descriptor if and only
\* if its first racing event is a reply that parses as JSON with method
\* 'getPilot'.
C5_AsWritten ==
    \A i \in 1..NCand :
        dq[i].promise # Pending => (IsDescriptor(dq[i].promise) <=> FirstIsGetPilotReply(i))

\* C5, amended: a discovery query that was issued is eventually settled; it
\* is settled exactly when one of its racing events has happened, and its
\* value is decided by the first of them for good: the descriptor made from
\* that reply if it is a reply that parses as JSON, has method 'getPilot' and
\* carries a result; null otherwise.
C5_FirstEventDecides ==
    /\ [](\A i \in 1..NCand :
            /\ dq[i].first = NoEvent <=> dq[i].promise = Pending
            /\ dq[i].first # NoEvent =>
                 IF FirstIsGetPilotReply(i) /\ dq[i].first.msg.result # DNoResult
                   THEN dq[i].promise = MakeWizDevice(dMode, i, dq[i].first.msg)
                   ELSE dq[i].promise = Null)
    /\ \A i \in 1..NCand : (dq[i].st # "idle") ~> (dq[i].promise # Pending)

\* a valid reply came first and the timeout fired afterwards
C5_Witness ==
    \E i \in 1..NCand :
        /\ FirstIsGetPilotReply(i)
        /\ dq[i].first.msg.result # DNoResult
        /\ dq[i].fired
        /\ dq[i].handled = 2
        /\ IsDescriptor(dq[i].promise)

\* C8: a discovery query whose send failed resolves to null and raises no
\* exception, and the scan then still completes with every candidate's query
\* resolved.
C8_SendErrorIsAbsence ==
    /\ [](\A i \in 1..NCand :
            dq[i].st = "failed" =>
                /\ dq[i].promise = Null
                /\ \A e \in dUncaught : e.q # i)
    /\ ((\E i \in 1..NCand : dq[i].st = "failed")
          ~> (dPhase = "done" /\ \A j \in 1..NCand : dq[j].promise # Pending))

\* one candidate's send failed, another candidate was found, the scan is over
C8_Witness ==
    /\ dPhase = "done"
    /\ \E i, j \in 1..NCand :
         /\ dq[i].st = "failed"
         /\ dq[i].fired
         /\ IsDescriptor(dq[j].promise)
         /\ Len(lights) = 1

\* C10: the socket a discovery query opened is eventually closed.
C10_DiscoverySocketReleased ==
    \A i \in 1..NCand : dq[i].open ~> ~dq[i].open

\* a query that nobody answered had its socket closed by the timeout
C10_Witness ==
    \E i \in 1..NCand :
        /\ dq[i].st = "sent"
        /\ dq[i].handled = 0
        /\ dq[i].fired
        /\ ~dq[i].open

\* socket s exists and is open
SockOpen(s) == IF s \in DOMAIN socks THEN socks[s].open ELSE FALSE

\* C11: every socket request opened is eventually closed, even when the
\* device never sends a datagram: a socket whose datagram went out stays open
\* only while a reply may still be on its way, never for ever with no
\* datagram arriving.
C11_RequestSocketReleased ==
    \A s \in 1..MaxCalls :
        (SockOpen(s) /\ socks[s].st = "sent") ~> (~SockOpen(s) \/ Handled(Len(socks)) > 0)

\* C12: discoverDevices issues the getPilot query of every candidate before
\* it waits for any candidate's outcome: while the scan is waiting, no
\* candidate's query is still unissued.
C12_FanOutBeforeWaiting ==
    dPhase = "scan" => \A i \in 1..NCand : dq[i].st # "idle"

\* the positions of lights that hold a descriptor of candidate i
LightsOf(i) == {k \in DOMAIN lights : lights[k].ip = i}

\* C13: when discovery is done, lights holds the descriptor of a candidate
\* if and only if the candidate's query resolved to a descriptor (made from
\* a valid reply), it holds that descriptor once and as the query resolved
\* it; a candidate that timed out, failed to send or failed to parse has no
\* entry and takes no other candidate's entry away, and a scan that started
\* is eventually done whatever its candidates do.
C13_ExactlyTheValidReplies ==
    /\ [](dPhase = "done" =>
            \A i \in 1..NCand :
                /\ LightsOf(i) # {} <=> IsDescriptor(dq[i].promise)
                /\ Cardinality(LightsOf(i)) <= 1
                /\ \A k \in LightsOf(i) : lights[k] = dq[i].promise)
    /\ (dPhase = "scan") ~> (dPhase = "done")

\* discovery done in the Promise.all variant: candidate 1 found, candidate 2
\* timed out
C13_Witness ==
    /\ dMode = "parallel"
    /\ dPhase = "done"
    /\ IsDescriptor(dq[1].promise)
    /\ dq[2].first = [ev |-> "timeout"]
    /\ Len(lights) = 1

\* C14: in whatever order the candidates' queries settle, the descriptors in
\* lights stand in the order of their candidates in the input list.
C14_InputOrderPreserved ==
    \A k, l \in DOMAIN lights : k < l => lights[k].ip < lights[l].ip

\* the Promise.all variant found both candidates, the second one's reply
\* having arrived first
C14_Witness ==
    /\ dMode = "parallel"
    /\ dPhase = "done"
    /\ Len(lights) = 2
    /\ dq[2].rank < dq[1].rank

\* the device class that the classification policy gives a reply's result,
\* by the fields it has
PolicyClass(result) ==
    IF result.dimming = Absent THEN "SWITCH"
    ELSE IF result.temp # Absent THEN "WHITE_LIGHT"
    ELSE "RGB_LIGHT"

\* C15: the descriptor that makeWizDevice makes from a successful reply has
\* the class SWITCH when the reply has no dimming field, WHITE_LIGHT when it
\* has dimming and temp, RGB_LIGHT when it has dimming and no temp.
C15_ClassFromOptionalFields ==
    \A i \in 1..NCand :
        IsDescriptor(dq[i].promise) =>
            dq[i].promise.type = PolicyClass(dq[i].first.msg.result)

\* C16: calvinToTemp(2700) = 500, calvinToTemp(6500) = 140,
\* tempToCalvin(140) = 6500 and tempToCalvin(500) = 2700.
C16_BoundaryEqualities ==
    (out # Unset /\ arg.kind \in {"calvin", "temp"}) =>
        /\ arg = [kind |-> "calvin", val |-> 2700] => out = 500
        /\ arg = [kind |-> "calvin", val |-> 6500] => out = 140
        /\ arg = [kind |-> "temp", val |-> 140] => out = 6500
        /\ arg = [kind |-> "temp", val |-> 500] => out = 2700

\* the distance of two integers
Dist(a, b) == IF a < b THEN b - a ELSE a - b

\* a Kelvin value, or a unit value, has gone through both conversions
RoundTripDone(kind) == arg.kind = kind /\ out # Unset /\ back # Unset

\* C17 as written: for every integer Kelvin value k in [2700, 6500],
\* tempToCalvin(calvinToTemp(k)) differs from k by at most 1.
C17_AsWritten == RoundTripDone("calvin") => Dist(back, arg.val) <= 1

\* C17, amended: for every integer Kelvin value k in [2700, 6500],
\* calvinToTemp(k) is a unit value in [140, 500] and
\* tempToCalvin(calvinToTemp(k)) differs from k by at most 5.
C17_KelvinRoundTripWithin5 ==
    /\ (arg.kind = "calvin" /\ out # Unset) => out \in TempMin..TempMax
    /\ RoundTripDone("calvin") => Dist(back, arg.val) <= 5

\* a Kelvin value that comes back 5 away: 2705 -> 500 -> 2700
C17_Witness ==
    /\ RoundTripDone("calvin")
    /\ arg.val = 2705
    /\ Dist(back, arg.val) = 5

\* C18: for every integer unit value u in [140, 500],
\* calvinToTemp(tempToCalvin(u)) differs from u by at most 1.
C18_UnitRoundTripWithin1 == RoundTripDone("temp") => Dist(back, arg.val) <= 1

\* a unit value inside the range has gone through both conversions
C18_Witness ==
    /\ RoundTripDone("temp")
    /\ arg.val = 333
    /\ out \in CalvinMin..CalvinMax
    /\ back = arg.val

\* round(140 + 360 * (1 - (k - 2700) / 3800)), the inverted linear map of
\* the specification from Kelvin to units
KelvinToUnit(k) == Round(140 * 3800 + 360 * (3800 - (k - 2700)), 3800)

\* round(2700 + 3800 * (1 - (u - 140) / 360)), the inverted linear map of
\* the specification from units to Kelvin
UnitToKelvin(u) == Round(2700 * 360 + 3800 * (360 - (u - 140)), 360)

\* C19: for every integer k in [2700, 6500] calvinToTemp(k) is
\* round(140 + 360 * (1 - (k - 2700) / 3800)), and for every integer u in
\* [140, 500] tempToCalvin(u) is round(2700 + 3800 * (1 - (u - 140) / 360)).
C19_InvertedLinearMaps ==
    /\ (arg.kind = "calvin" /\ out # Unset) => out = KelvinToUnit(arg.val)
    /\ (arg.kind = "temp" /\ out # Unset) => out = UnitToKelvin(arg.val)

\* C20: when the reply to a temperature query has a result whose temp is
\* missing or unparseable, the callback of getTemperature raises nothing,
\* stores 500 as the current temperature and delivers 500 to its caller,
\* never NaN.
C20_FallsBackToDefault ==
    (arg.kind = "reply" /\ arg.val \in {Absent, Unparseable} /\ (cbValue # Unset \/ tempRaised)) =>
        /\ ~tempRaised
        /\ cbValue = 500
        /\ Temperature = 500

\* the sockets that request opened on behalf of caller c
SocketsBy(c) == {s \in DOMAIN socks : socks[s].by = c}

\* C21: every setState call has exactly one socket of its own, on which a
\* setPilot datagram with that call's callback was handed over, whatever the
\* in-flight flag and the pending queue were when it was made; the call is
\* never put in the pending queue.
C21_SetIssuesOwnExchange ==
    \A c \in DOMAIN calls :
        calls[c] = "set" =>
            /\ Cardinality(SocketsBy(c)) = 1
            /\ \A s \in SocketsBy(c) : socks[s].method = "setPilot" /\ socks[s].cb = c
            /\ \A i \in DOMAIN callbacks : callbacks[i] # c

\* a setState made while a getPilot exchange was in flight (its send not
\* yet completed, its caller queued) has its own socket
C21_Witness ==
    \E s1, s2 \in DOMAIN socks :
        /\ s1 < s2
        /\ socks[s1].method = "getPilot" /\ socks[s1].st = "sending"
        /\ callbacks # <<>>
        /\ socks[s2].method = "setPilot" /\ calls[socks[s2].by] = "set"

\* a getPilot exchange whose datagram was handed to socket s and on which
\* no reply has been processed yet
AwaitingReply(s) ==
    /\ socks[s].method = "getPilot"
    /\ socks[s].st \in {"sending", "sent"}
    /\ socks[s].handled = 0

\* C22: pendingRequest is set from the moment the getPilot datagram is
\* handed to the socket until the reply of that exchange has been processed;
\* the completion of the send does not clear it.
C22_FlagHeldUntilReply ==
    (\E s \in DOMAIN socks : AwaitingReply(s)) => pendingRequest

\* a step of a setPilot exchange: a setState call, or a handler of a socket
\* that request opened for setPilot (send callback, 'message', deferred close)
SetExchangeStep ==
    \/ Len(calls') = Len(calls) + 1 /\ calls'[Len(calls')] = "set"
    \/ \E s \in DOMAIN socks : socks[s].method = "setPilot" /\ socks'[s] # socks[s]

\* C23: a setState call and the handlers of its setPilot exchange change
\* neither pendingRequest nor callbacks.
C23_SetLeavesCoalescerAlone ==
    [][SetExchangeStep => UNCHANGED <<pendingRequest, callbacks>>]_vars

\* C24: whenever callbacks is not empty, a getPilot exchange is outstanding
\* whose reply will drain it.
C24_QueuedImpliesGetInFlight ==
    callbacks # <<>> => OutstandingGets # {}

\* C25: the callback that a getState caller placed in callbacks is invoked
\* at most once, whatever replies arrive and also when a drain is left
\* part-way by an exception.
C25_QueuedCallbackInvokedOnce ==
    \A c \in DOMAIN calls :
        calls[c] = "get" => Cardinality(DeliveriesTo(c)) <= 1

\* C26: a getState caller's callback is only ever invoked with a datagram
\* received on the socket of a getPilot exchange, and a datagram received
\* on the socket of a setPilot exchange is passed to the setState caller
\* that opened that socket and to nobody else.
C26_RepliesReachTheirOwnCallers ==
    \A i \in DOMAIN delivered :
        LET d == delivered[i]
        IN  /\ calls[d.to] = "get" => socks[d.sock].method = "getPilot"
            /\ socks[d.sock].method = "setPilot" =>
                  d.to = socks[d.sock].by /\ calls[d.to] = "set"

\* the reply of a setPilot exchange was processed while a getState caller,
\* who had called before the setState, was queued; the getState caller got
\* the reply of a getPilot exchange afterwards
C26_Witness ==
    \E i, j \in DOMAIN delivered :
        /\ i < j
        /\ socks[delivered[i].sock].method = "setPilot"
        /\ calls[delivered[j].to] = "get"
        /\ delivered[j].to < delivered[i].to
        /\ delivered[j].ok

\* C27: in no interleaving of the datagrams, the send callback and the
\* timeout of a discovery query does a close of its socket, called outside
\* try/catch on a socket that is closed already, raise an exception.
C27_NoCloseOfClosedSocket ==
    \A i \in 1..NCand : [q |-> i, kind |-> "NotRunning"] \notin dUncaught

\* C28: in one run of discoverDevices no two accessories with the same UUID
\* are passed to registerPlatformAccessories, and none whose UUID is that of
\* an accessory restored from the cache.
C28_NoDuplicateRegistration ==
    /\ \A k, l \in DOMAIN registered : k # l => registered[k] # registered[l]
    /\ \A k \in DOMAIN registered : registered[k] \notin accessories

\* the query of candidate i, once its send has completed, is not sent again,
\* and its socket, once closed, is not opened again
NoResend(i) ==
    /\ dq[i].st \in {"sent", "failed"} => dq'[i].st = dq[i].st
    /\ (dq[i].st # "idle" /\ ~dq[i].open) => ~dq'[i].open

\* request opens a socket only within a HomeKit call, one at most, and a
\* socket whose send has completed is not sent on or opened again
NoResendOnRequest ==
    /\ Len(socks') <= Len(socks) + 1
    /\ Len(socks') > Len(socks) => Len(calls') = Len(calls) + 1
    /\ \A s \in DOMAIN socks :
          /\ socks[s].st \in {"sent", "failed"} => socks'[s].st = socks[s].st
          /\ ~socks[s].open => ~socks'[s].open

C30_MapperCalledInsideDomain ==
    \A c \in mapperCalls :
        /\ c.fn = "tempToCalvin" => c.arg \in TempMin..TempMax
        /\ c.fn = "calvinToTemp" => c.arg \in CalvinMin..CalvinMax

\* C31: in both variants, for every integer k in [2700, 6500] calvinToTemp(k)
\* is an integer in [140, 500], and for every integer u in [140, 500]
\* tempToCalvin(u) is an integer in [2700, 6500].
C31_MapperStaysInOppositeDomain ==
    /\ (arg.kind = "calvin" /\ out # Unset) => out \in TempMin..TempMax
    /\ (arg.kind \in {"temp", "set"} /\ out # Unset) => out \in CalvinMin..CalvinMax

\* the non-inverted calvinToTemp of platformAccessory.ts has mapped the
\* upper end of the Kelvin range onto the upper end of the unit range
C31_Witness ==
    /\ variant = "platformAccessory"
    /\ arg = [kind |-> "calvin", val |-> CalvinMax]
    /\ out = TempMax
====
